---- MODULE Spec2Model ----
(***************************************************************************)
(* A model of the fetch load balancer (balancer.ts): the backend records,  *)
(* the scorer `score`, the selector `chooseBackends` / `bestBackend`, the  *)
(* retry guard `canRetry` and the dispatcher `fetchBalancer`.              *)
(*                                                                         *)
(* Numbers.  JavaScript numbers are modelled by integers:                  *)
(*   - times and latencies are milliseconds;                               *)
(*   - healthScore and latencyScore are kept in hundredths (the code       *)
(*     rounds both with toFixed(2)), so 1 is 100;                          *)
(*   - the weights of balancer-config are percentages, so the combined     *)
(*     score is kept in units of 1/10000 and 1 is ScoreOne;                *)
(*   - the time weight (0, 0.1, 0.3, 0.8, 1) is kept in tenths.            *)
(* Holes of the sparse arrays made by Array<number>(10) are Hole.          *)
(* The rounding of toFixed(2) is the exact one except where the double     *)
(* lies below a tie (HealthTiesDown, LatencyTiesDown).  The combined score *)
(* is an exact sum here; two doubles that differ in the last bit while the *)
(* exact sums agree are taken as equal.                                    *)
(*                                                                         *)
(* Steps.  JavaScript runs an async function without interruption from one *)
(* await to the next, so Start and Settle are each one step, and the clock *)
(* does not move within a step.                                            *)
(***************************************************************************)
EXTENDS Integers, Sequences, FiniteSets, TLC

VARIABLES
    tracked,    \* the pool: a sequence of backend records
    calls,      \* the dispatcher calls: slot -> activation of fetchBalancer
    now,        \* the wall clock read by Date.now() / new Date().getTime()
    started,    \* number of dispatcher calls begun so far
    invoked,    \* history: per backend, the number of transport invocations
    observed,   \* history: per backend, the observations in arrival order
    selIn,      \* selector harness: the input of chooseBackends
    selOut,     \* selector harness: the pair returned by chooseBackends
    scoreIn,    \* scorer harness: the record and the errorBasis given to score
    scoreOut    \* scorer harness: what score returned and the record after

vars == <<tracked, calls, now, started, invoked, observed, selIn, selOut,
          scoreIn, scoreOut>>

----------------------------------------------------------------------------
(* Bounds of the model.                                                    *)

MaxPool == 2          \* largest pool built by Init
MaxInFlight == 2      \* dispatcher calls that may run concurrently
MaxCalls == 3         \* dispatcher calls begun in one behaviour of Spec
MaxSeqCalls == 12     \* sequential calls in one behaviour of SpecSeq
MaxElapsed == 130     \* the clock stops advancing this long after StartTime
MaxLatency == 125     \* longest a transport stays pending
MaxRetryPool == 2     \* largest pool built by InitRetry
MaxRetryCalls == 1    \* dispatcher calls begun in one behaviour of SpecRetry
MaxRankCalls == 3     \* dispatcher calls begun in one behaviour of SpecRank
MaxSel == 4           \* longest record sequence given to chooseBackends
MaxSelCount == 1      \* largest requestCount of a record given to chooseBackends
MaxSamples == 4       \* longest buffers of a record given to score
MaxLivePool == 2      \* largest pool built by InitLive
MaxLiveCalls == 2     \* dispatcher calls begun in one behaviour of SpecLive
MaxDecayPool == 2     \* largest pool built by InitDecay
MaxDecayCalls == 3    \* dispatcher calls begun in one behaviour of SpecDecay
MaxDecayElapsed == 10130  \* the clock of SpecDecay stops this long after StartTime
StartTime == 20000    \* Date.now() at construction
TickShort == 60       \* a clock step shorter than AVERAGE_LATENCY_EXPECTED
TickLong == 10000     \* a clock step that outlasts every range of timeWeight

(* Program constants.                                                      *)

RingSize == 10        \* Array<number>(10)
Hole == -1            \* an index of a sparse array that was never written
Undefined == 0        \* `undefined` where a backend (an index >= 1) is expected

(* balancer-config.                                                        *)

LATENCY_DEVIATION_ALLOWED == 50
AVERAGE_LATENCY_EXPECTED == 100
HEALTH_SCORE_WEIGHT == 50
LATENCY_SCORE_WEIGHT == 50
LATENCY_SCORE_INSTABILITY_WEIGHT == 50

ScoreOne == 100 * 100

----------------------------------------------------------------------------
(* Arithmetic helpers.                                                     *)

Abs(x) == IF x < 0 THEN -x ELSE x

\* Number.prototype.toFixed followed by parseFloat, on the exact quotient
\* n / d (d > 0): the nearest integer, a tie going away from zero.
ToFixed(n, d) ==
    IF n >= 0 THEN (2 * n + d) \div (2 * d)
    ELSE -((2 * (-n) + d) \div (2 * d))

\* JavaScript `c && v` and `a || b` over numbers, false being 0 (both falsy).
AndNum(c, v) == IF c THEN v ELSE 0
OrNum(a, b) == IF a # 0 THEN a ELSE b

Defined(s) == {i \in 1..Len(s) : s[i] # Hole}

RECURSIVE Insert(_, _)
Insert(x, s) ==
    IF s = <<>> THEN <<x>>
    ELSE IF x > Head(s) THEN <<Head(s)>> \o Insert(x, Tail(s))
    ELSE <<x>> \o s

RECURSIVE SortDefined(_, _)
SortDefined(s, i) ==
    IF i > Len(s) THEN <<>>
    ELSE IF s[i] = Hole THEN SortDefined(s, i + 1)
    ELSE Insert(s[i], SortDefined(s, i + 1))

\* Array.prototype.sort with the ascending comparator of score: the written
\* elements in ascending order, the holes after them, the length kept.
SortLatencies(s) ==
    LET d == SortDefined(s, 1)
    IN  d \o [i \in 1..(Len(s) - Len(d)) |-> Hole]

----------------------------------------------------------------------------
(* The scorer: score(backend, errorBasis).                                 *)

\* The chain with its last comparison as timeSinceError <= 10000.
TimeWeightInclusive(lastError, timeSinceError) ==
    OrNum(AndNum(lastError = 0, 0),
    OrNum(AndNum(timeSinceError < 1000, 10),
    OrNum(AndNum(timeSinceError < 3000, 8),
    OrNum(AndNum(timeSinceError < 5000, 3),
    OrNum(AndNum(timeSinceError <= 10000, 1),
          0)))))

\* The chain with the weights 0.8 and 0.3 exchanged.
TimeWeightSwapped(lastError, timeSinceError) ==
    OrNum(AndNum(lastError = 0, 0),
    OrNum(AndNum(timeSinceError < 1000, 10),
    OrNum(AndNum(timeSinceError < 3000, 3),
    OrNum(AndNum(timeSinceError < 5000, 8),
    OrNum(AndNum(timeSinceError < 10000, 1),
          0)))))

\* timeWeight in tenths.  `(lastError === 0 && 0)` is 0 or false, both falsy,
\* so the || chain always goes on to the comparisons of timeSinceError.
TimeWeight(lastError, timeSinceError) ==
    OrNum(AndNum(lastError = 0, 0),
    OrNum(AndNum(timeSinceError < 1000, 10),
    OrNum(AndNum(timeSinceError < 3000, 8),
    OrNum(AndNum(timeSinceError < 5000, 3),
    OrNum(AndNum(timeSinceError < 10000, 1),
          0)))))

\* The filter as l => l !== undefined: a latency of 0 counts as a measure.
MeasuresTakenAll(latencies) == Cardinality(Defined(latencies))

\* latencies.filter(l => !!l).length: holes are skipped, 0 is falsy.
MeasuresTaken(latencies) ==
    Cardinality({i \in Defined(latencies) : latencies[i] # 0})

\* statuses.reduce(...): the written statuses in [500, 600).
Errors(statuses) ==
    Cardinality({i \in Defined(statuses) :
                    statuses[i] # 0 /\ statuses[i] >= 500 /\ statuses[i] < 600})

\* The doubles 1 - timeWeight * (errors / measuresTaken) that lie just below a
\* tie x.xx5, which toFixed(2) therefore rounds down: <<weight, errors, measures>>.
HealthTiesDown == {<<1, 1, 4>>, <<1, 7, 4>>, <<1, 2, 8>>, <<3, 7, 4>>}

\* healthScore in hundredths.
HealthScore(timeWeight, errors, measuresTaken) ==
    ToFixed(100 * (10 * measuresTaken - timeWeight * errors), 10 * measuresTaken)
    - (IF <<timeWeight, errors, measuresTaken>> \in HealthTiesDown THEN 1 ELSE 0)

\* The fold of sortedLatencies.reduce: acc is the running average times
\* 2^RingSize (every halving stays exact), beyond counts the rejected samples.
AccScale == 2 ^ RingSize

RECURSIVE AverageLatency(_, _, _, _)
AverageLatency(sorted, i, acc, beyond) ==
    IF i > Len(sorted) THEN [acc |-> acc, beyond |-> beyond]
    ELSE IF sorted[i] = Hole THEN AverageLatency(sorted, i + 1, acc, beyond)
    ELSE IF Abs(acc - sorted[i] * AccScale) < LATENCY_DEVIATION_ALLOWED * AccScale
         THEN AverageLatency(sorted, i + 1, (acc + sorted[i] * AccScale) \div 2, beyond)
         ELSE AverageLatency(sorted, i + 1, acc, beyond + 1)

\* rawLatencyScore in hundredths, from the scaled average and the
\* instability count.
RawLatencyScore(acc, beyond, measuresTaken) ==
    LET corrected == IF measuresTaken > 3 THEN beyond ELSE 0
        \* pingScore = pn / pd
        pn == IF acc <= AVERAGE_LATENCY_EXPECTED * AccScale THEN 1
              ELSE AVERAGE_LATENCY_EXPECTED * AccScale
        pd == IF acc <= AVERAGE_LATENCY_EXPECTED * AccScale THEN 1 ELSE acc
        pingWeight == 100 - LATENCY_SCORE_INSTABILITY_WEIGHT
    IN  ToFixed(pn * pingWeight * measuresTaken
                  + (measuresTaken - corrected) * LATENCY_SCORE_INSTABILITY_WEIGHT * pd,
                pd * measuresTaken)

\* The doubles 1 - timeWeight * rawLatencyScore that lie just below a tie:
\* <<weight, rawLatencyScore in hundredths>>.
LatencyTiesDown ==
    ({1} \X {-115, -105, -95, -85, -75, -65, -55, -45, -35, -25, -15, -5,
             5, 15, 25, 35, 45, 55})
    \cup ({3} \X {-115, -105, -95, -85, -35, -25, -15, -5, 5, 15, 45, 55, 65, 85})

\* latencyScore in hundredths.
LatencyScore(timeWeight, raw) ==
    ToFixed(1000 - timeWeight * raw, 10)
    - (IF <<timeWeight, raw>> \in LatencyTiesDown THEN 1 ELSE 0)

\* score writing scoredRequestCount one ahead of requestCount, as if the
\* increment of line 81 had already happened.
scoreAhead(backend, errorBasis) ==
    LET timeSinceError == errorBasis - backend.lastError
        timeWeight == TimeWeight(backend.lastError, timeSinceError)
        measuresTaken == MeasuresTaken(backend.latencies)
        errors == Errors(backend.statuses)
        healthScore == HealthScore(timeWeight, errors, measuresTaken)
        sortedLatencies == SortLatencies(backend.latencies)
        middleLatency == sortedLatencies[(measuresTaken \div 2) + 1]
        avg == AverageLatency(sortedLatencies, 1, middleLatency * AccScale, 0)
        rawLatencyScore == RawLatencyScore(avg.acc, avg.beyond, measuresTaken)
        latencyScore == LatencyScore(timeWeight, rawLatencyScore)
        total == healthScore * HEALTH_SCORE_WEIGHT + latencyScore * LATENCY_SCORE_WEIGHT
    IN  IF measuresTaken < 2
        THEN [ret |-> <<0, 0, 0>>, backend |-> backend]
        ELSE [ret |-> <<healthScore, latencyScore, total>>,
              backend |-> [backend EXCEPT
                  !.latencies = sortedLatencies,
                  !.scoredRequestCount = backend.requestCount + 1,
                  !.healthScore = healthScore,
                  !.latencyScore = latencyScore,
                  !.score = total]]

\* score(backend, errorBasis): ret is the returned triple, backend the record
\* after the call.  The early return leaves the record alone; past it the
\* latencies are sorted in place and the four result fields are written.
score(backend, errorBasis) ==
    LET timeSinceError == errorBasis - backend.lastError
        timeWeight == TimeWeight(backend.lastError, timeSinceError)
        measuresTaken == MeasuresTaken(backend.latencies)
        errors == Errors(backend.statuses)
        healthScore == HealthScore(timeWeight, errors, measuresTaken)
        sortedLatencies == SortLatencies(backend.latencies)
        middleLatency == sortedLatencies[(measuresTaken \div 2) + 1]
        avg == AverageLatency(sortedLatencies, 1, middleLatency * AccScale, 0)
        rawLatencyScore == RawLatencyScore(avg.acc, avg.beyond, measuresTaken)
        latencyScore == LatencyScore(timeWeight, rawLatencyScore)
        total == healthScore * HEALTH_SCORE_WEIGHT + latencyScore * LATENCY_SCORE_WEIGHT
    IN  IF measuresTaken < 2
        THEN [ret |-> <<0, 0, 0>>, backend |-> backend]
        ELSE [ret |-> <<healthScore, latencyScore, total>>,
              backend |-> [backend EXCEPT
                  !.latencies = sortedLatencies,
                  !.scoredRequestCount = backend.requestCount,
                  !.healthScore = healthScore,
                  !.latencyScore = latencyScore,
                  !.score = total]]

----------------------------------------------------------------------------
(* The retry guard and the selector.                                       *)

\* canRetry comparing the method without regard to case.
canRetryAnyCase(req, resp) ==
    IF resp.status < 500 THEN FALSE
    ELSE IF req.method \in {"GET", "get", "HEAD", "head"} THEN TRUE
    ELSE FALSE

\* canRetry with its first comparison turned around.
canRetryInverted(req, resp) ==
    IF resp.status >= 500 THEN FALSE
    ELSE IF req.method = "GET" \/ req.method = "HEAD" THEN TRUE
    ELSE FALSE

canRetry(req, resp) ==
    IF resp.status < 500 THEN FALSE
    ELSE IF req.method = "GET" \/ req.method = "HEAD" THEN TRUE
    ELSE FALSE

\* bestBackend without the requestCount tie-break.
bestBackendScoreOnly(backends, x, y) ==
    IF backends[x].score > backends[y].score THEN x ELSE y

\* bestBackend over indices x, y of the sequence backends.
bestBackend(backends, x, y) ==
    IF backends[x].score > backends[y].score
       \/ (backends[x].score = backends[y].score
           /\ backends[x].requestCount < backends[y].requestCount)
    THEN x ELSE y

\* The loop of chooseBackends from index i on, b1 and b2 being indices of
\* backends or Undefined.
RECURSIVE ChooseLoop(_, _, _, _, _)
ChooseLoop(backends, attempted, i, b1, b2) ==
    IF i > Len(backends) THEN <<b1, b2>>
    ELSE IF i \in attempted THEN ChooseLoop(backends, attempted, i + 1, b1, b2)
    ELSE IF b1 = Undefined THEN ChooseLoop(backends, attempted, i + 1, i, b2)
    ELSE IF b2 = Undefined THEN ChooseLoop(backends, attempted, i + 1, b1, i)
    ELSE LET old1 == b1
             new1 == bestBackend(backends, i, b1)
             new2 == IF old1 # new1 THEN bestBackend(backends, old1, b2)
                     ELSE bestBackend(backends, i, b2)
         IN  ChooseLoop(backends, attempted, i + 1, new1, new2)

\* chooseBackends without the test of the attempted set.
chooseBackendsAll(backends, attempted) ==
    ChooseLoop(backends, {}, 1, Undefined, Undefined)

\* chooseBackends with the test of line 221 negated: the untried records are
\* the ones skipped.
chooseBackendsTried(backends, attempted) ==
    ChooseLoop(backends, DOMAIN backends \ attempted, 1, Undefined, Undefined)

chooseBackends(backends, attempted) ==
    ChooseLoop(backends, attempted, 1, Undefined, Undefined)

----------------------------------------------------------------------------
(* Transports and responses.                                               *)

\* What one invocation of a transport ends in: a response with a status, or
\* a rejection.
Resolve(status) == [ok |-> TRUE, status |-> status]
Reject == [ok |-> FALSE, status |-> 0]

\* The transports of the model, each the set of outcomes its invocations may
\* have: fakeFetch and fakeFetchError of the tests, a throwing one, three that
\* answer at the edges of the range [500, 600), and one that sometimes works.
FakeFetch == {Resolve(200)}
FakeFetchError == {Resolve(502)}
Thrower == {Reject}
Below == {Resolve(499)}
Last5xx == {Resolve(599)}
Above == {Resolve(600)}
Flaky == {Resolve(200), Reject}
Transports == {FakeFetch, FakeFetchError, Thrower, Below, Last5xx, Above, Flaky}
PoolTransports == {FakeFetch, FakeFetchError, Thrower}
SeqTransports == {FakeFetch, Flaky}

Methods == {"GET", "HEAD", "POST", "get"}
TwoMethods == {"GET", "POST"}

\* new Response(body, { status }); from is the backend whose transport made
\* the response, Undefined for the two responses the balancer makes itself.
Response(text, status, from) == [text |-> text, status |-> status, from |-> from]

proxyError == Response("couldn't connect to origin", 502, Undefined)
NoResponse == Response("", 0, Undefined)

\* The record balancer() makes for the transport h.
Backend(h) ==
    [proxy |-> h,
     requestCount |-> 0,
     scoredRequestCount |-> 0,
     statuses |-> [i \in 1..RingSize |-> Hole],
     latencies |-> [i \in 1..RingSize |-> Hole],
     healthScore |-> 100,
     latencyScore |-> 100,
     score |-> ScoreOne,
     lastError |-> 0,
     errorCount |-> 0]

----------------------------------------------------------------------------
(* The dispatcher: one activation of fetchBalancer per slot of calls.      *)

Idle ==
    [pc |-> "idle", req |-> [method |-> "GET"], attempted |-> {},
     backend |-> Undefined, requestStart |-> 0, resp |-> NoResponse,
     tries |-> <<>>, got |-> <<>>, rejected |-> FALSE, stored |-> 0, base |-> 0,
     ticket |-> 0, slot |-> 0]

\* The await without the catch clause: a rejection leaves the statement.
AwaitPromiseNoCatch(outcome, from, requestStart, time) ==
    IF outcome.ok
    THEN [threw |-> FALSE, resp |-> Response("origin", outcome.status, from),
          latency |-> time - requestStart]
    ELSE [threw |-> TRUE, resp |-> NoResponse, latency |-> 0]

\* The await with the latency measured in the catch clause as well.
AwaitPromiseTimed(outcome, from, requestStart, time) ==
    IF outcome.ok
    THEN [threw |-> FALSE, resp |-> Response("origin", outcome.status, from),
          latency |-> time - requestStart]
    ELSE [threw |-> FALSE, resp |-> proxyError, latency |-> time - requestStart]

\* try { resp = await promise; latency = ... } catch (e) { resp = proxyError }
\* for a promise settled with outcome: the response and latency the code goes
\* on with, threw telling whether an exception leaves the try statement.
AwaitPromise(outcome, from, requestStart, time) ==
    IF outcome.ok
    THEN [threw |-> FALSE, resp |-> Response("origin", outcome.status, from),
          latency |-> time - requestStart]
    ELSE [threw |-> FALSE, resp |-> proxyError, latency |-> 0]

\* `return resp`: the activation ends and its locals go away.
Return(cl, resp) ==
    [cl EXCEPT !.pc = "done", !.resp = resp, !.attempted = {},
               !.backend = Undefined, !.requestStart = 0]

\* Lines 94-100: the status and the latency go to the end of a buffer shorter
\* than 10 and otherwise to index (requestCount - 1) % length.
RingIndex(b) == ((b.requestCount - 1) % Len(b.statuses)) + 1

Record(b, status, latency) ==
    IF Len(b.statuses) < 10
    THEN [b EXCEPT !.statuses = Append(b.statuses, status),
                   !.latencies = Append(b.latencies, latency)]
    ELSE [b EXCEPT !.statuses[((b.requestCount - 1) % Len(b.statuses)) + 1] = status,
                   !.latencies[((b.requestCount - 1) % Len(b.latencies)) + 1] = latency]

\* Lines 80-81 with the increment as the else branch of the rescoring.
AccountElse(b, time) ==
    IF b.scoredRequestCount # b.requestCount
    THEN score(b, time).backend
    ELSE [b EXCEPT !.requestCount = b.requestCount + 1]

\* Lines 80-82 on the chosen record.
Account(b, time) ==
    LET scored == IF b.scoredRequestCount # b.requestCount
                  THEN score(b, time).backend ELSE b
    IN  [scored EXCEPT !.requestCount = scored.requestCount + 1]

\* Lines 82-87 without attempted.add(backend).
AttemptNoAdd(cl, backend, time) ==
    [cl EXCEPT !.pc = "await",
               !.backend = backend,
               !.requestStart = time,
               !.tries = Append(cl.tries, backend)]

\* Lines 82-87 on the call: the backend joins attempted and the call awaits
\* its promise, the clock read for requestStart.
Attempt(cl, backend, time) ==
    [cl EXCEPT !.pc = "await",
               !.backend = backend,
               !.attempted = cl.attempted \cup {backend},
               !.requestStart = time,
               !.tries = Append(cl.tries, backend)]

\* Line 111 returning the response of the last attempt.
LoopExitLast(cl) ==
    Return(cl, IF cl.tries = <<>> THEN proxyError
               ELSE Response("origin", cl.got[Len(cl.got)], cl.tries[Len(cl.tries)]))

\* Line 111: the loop ends with every backend attempted.
LoopExit(cl) == Return(cl, proxyError)

\* The loop of fetchBalancer from its head to the next await or return, run
\* by call cl over the pool tr at the given time; coin is
\* Math.floor(Math.random() * 2).  It gives the pool, the call and the backend
\* whose transport was invoked (Undefined if none was).
Loop(tr, cl, time, coin) ==
    IF Cardinality(cl.attempted) < Len(tr)
    THEN LET pair == chooseBackends(tr, cl.attempted)
             backendA == pair[1]
             backendB == pair[2]
             backend == IF backendB = Undefined THEN backendA
                        ELSE IF coin = 0 THEN backendA ELSE backendB
         IN  IF backendA = Undefined
             THEN [tracked |-> tr, sent |-> Undefined,
                   call |-> Return(cl, Response("No backend available", 502, Undefined))]
             ELSE LET counted == Account(tr[backend], time)
                  IN  [tracked |-> [tr EXCEPT ![backend] = counted],
                       sent |-> backend,
                       call |-> [Attempt(cl, backend, time) EXCEPT
                                    !.ticket = counted.requestCount]]
    ELSE [tracked |-> tr, sent |-> Undefined, call |-> LoopExit(cl)]

RECURSIVE SumCount(_, _)
SumCount(tr, i) ==
    IF i > Len(tr) THEN 0 ELSE tr[i].requestCount + SumCount(tr, i + 1)

Bump(inv, b) == IF b = Undefined THEN inv ELSE [inv EXCEPT ![b] = inv[b] + 1]

LastN(s, n) == IF Len(s) <= n THEN s ELSE SubSeq(s, Len(s) - n + 1, Len(s))

\* fetchBalancer(req) is called: the function runs to its first await, or
\* returns at once on an empty pool.  The activation takes the lowest slot
\* not held by a pending call (the slots are interchangeable).
Free(c) == calls[c].pc \in {"idle", "done", "failed"}

Start(c, limit, methods) ==
    /\ Free(c)
    /\ \A d \in DOMAIN calls : d < c => ~Free(d)
    /\ started < limit
    /\ \E method \in methods, coin \in {0, 1} :
          \E r \in {Loop(tracked, [Idle EXCEPT !.req = [method |-> method],
                                              !.base = SumCount(tracked, 1)],
                           now, coin)} :
              /\ tracked' = r.tracked
              /\ calls' = [calls EXCEPT ![c] = r.call]
              /\ invoked' = Bump(invoked, r.sent)
    /\ started' = started + 1
    /\ UNCHANGED <<now, observed, selIn, selOut, scoreIn, scoreOut>>

\* Lines 94-108 for the response resp and the latency of call cl's attempt:
\* the buffers are written, a status in [500, 600) sets lastError and
\* rescores, and the call retries or returns.
Resume(tr, cl, resp, latency, time, coin) ==
    LET backend == cl.backend
        written == Record(tr[backend], resp.status, latency)
        isError == resp.status >= 500 /\ resp.status < 600
        rescored == IF isError
                    THEN score([written EXCEPT !.lastError = time], time).backend
                    ELSE written
        seen == [cl EXCEPT !.got = Append(cl.got, resp.status),
                           !.stored = written.statuses[RingIndex(tr[backend])],
                           !.slot = RingIndex(tr[backend])]
    IN  IF isError /\ canRetry(cl.req, resp)
        THEN Loop([tr EXCEPT ![backend] = rescored], seen, time, coin)
        ELSE [tracked |-> [tr EXCEPT ![backend] = rescored], sent |-> Undefined,
              call |-> Return(seen, resp)]

\* The transport awaited by call c settles: the function resumes after the
\* await and runs to its next await or to its return.  An exception that
\* leaves the try statement rejects the promise fetchBalancer returned.
Settle(c) ==
    /\ calls[c].pc = "await"
    /\ \E outcome \in tracked[calls[c].backend].proxy, coin \in {0, 1} :
       \E a \in {AwaitPromise(outcome, calls[c].backend, calls[c].requestStart, now)} :
          IF a.threw
          THEN /\ calls' = [calls EXCEPT ![c] = [@ EXCEPT !.pc = "failed"]]
               /\ UNCHANGED <<tracked, invoked, observed>>
          ELSE \E r \in {Resume(tracked, [calls[c] EXCEPT !.rejected = ~outcome.ok],
                                a.resp, a.latency, now, coin)} :
               /\ tracked' = r.tracked
               /\ calls' = [calls EXCEPT ![c] = r.call]
               /\ invoked' = Bump(invoked, r.sent)
               /\ observed' = [observed EXCEPT ![calls[c].backend] =
                      LastN(Append(@, [status |-> a.resp.status, latency |-> a.latency]),
                            RingSize)]
    /\ UNCHANGED <<now, started, selIn, selOut, scoreIn, scoreOut>>

\* The clock advances by d milliseconds.
Tick(d) ==
    /\ now + d <= StartTime + MaxElapsed
    /\ \A c \in DOMAIN calls :
          calls[c].pc = "await" => now + d - calls[c].requestStart <= MaxLatency
    /\ now' = now + d
    /\ UNCHANGED <<tracked, calls, started, invoked, observed, selIn, selOut,
                   scoreIn, scoreOut>>

----------------------------------------------------------------------------
(* Spec: pools of up to MaxPool transports under up to MaxInFlight          *)
(* concurrent dispatcher calls.                                            *)

NoSel == [backends |-> <<>>, attempted |-> {}]
NoScore == <<>>

Pools(transports, n) == UNION {[1..k -> transports] : k \in 0..n}

InitPool(pool, slots) ==
    /\ tracked = [i \in 1..Len(pool) |-> Backend(pool[i])]
    /\ calls = [c \in slots |-> Idle]
    /\ now = StartTime
    /\ started = 0
    /\ invoked = [i \in 1..Len(pool) |-> 0]
    /\ observed = [i \in 1..Len(pool) |-> <<>>]
    /\ selIn = NoSel
    /\ selOut = <<>>
    /\ scoreIn = NoScore
    /\ scoreOut = NoScore

Init == \E pool \in Pools(PoolTransports, MaxPool) : InitPool(pool, 1..MaxInFlight)

Next ==
    \/ \E c \in 1..MaxInFlight : Start(c, MaxCalls, TwoMethods)
    \/ \E c \in 1..MaxInFlight : Settle(c)
    \/ Tick(TickShort)

Spec == Init /\ [][Next]_vars

----------------------------------------------------------------------------
(* SpecLive: concurrent calls as in Spec, fewer of them, every invoked     *)
(* transport settling in the end.                                          *)

InitLive == \E pool \in Pools(PoolTransports, MaxLivePool) : InitPool(pool, 1..MaxInFlight)

NextLive ==
    \/ \E c \in 1..MaxInFlight : Start(c, MaxLiveCalls, TwoMethods)
    \/ \E c \in 1..MaxInFlight : Settle(c)
    \/ Tick(TickShort)

\* Every invoked transport settles in the end, and the call awaiting it
\* then resumes: weak fairness of Settle(c), WF_vars(Settle(c)), spelled out
\* as []<>~ENABLED <<Settle(c)>>_vars \/ []<><<Settle(c)>>_vars with the
\* enabling condition of Settle(c) in place of ENABLED: the call is awaiting.
TransportsSettle ==
    \A c \in 1..MaxInFlight :
        []<>(calls[c].pc # "await") \/ []<><<Settle(c)>>_vars

SpecLive == InitLive /\ [][NextLive]_vars /\ TransportsSettle

----------------------------------------------------------------------------
(* SpecSeq: one transport, the dispatcher called again and again, each     *)
(* call after the one before it has returned.                              *)

InitSeq == \E h \in SeqTransports : InitPool(<<h>>, {1})

NextSeq ==
    \/ Start(1, MaxSeqCalls, {"GET"})
    \/ Settle(1)
    \/ Tick(TickShort)

SpecSeq == InitSeq /\ [][NextSeq]_vars

----------------------------------------------------------------------------
(* SpecRetry: a few calls, one at a time, with every method, over pools of *)
(* up to MaxRetryPool transports of every kind.                            *)

InitRetry == \E pool \in Pools(Transports, MaxRetryPool) : InitPool(pool, {1})

NextRetry ==
    \/ Start(1, MaxRetryCalls, Methods)
    \/ Settle(1)
    \/ Tick(TickShort)

SpecRetry == InitRetry /\ [][NextRetry]_vars

----------------------------------------------------------------------------
(* SpecRank: GET calls, one at a time, over pools of three transports, so  *)
(* that the selector has to rank: two candidates leave a third out.        *)

InitRank == \E pool \in [1..3 -> PoolTransports] : InitPool(pool, {1})

NextRank ==
    \/ Start(1, MaxRankCalls, {"GET"})
    \/ Settle(1)
    \/ Tick(TickShort)

SpecRank == InitRank /\ [][NextRank]_vars

----------------------------------------------------------------------------
(* SpecDecay: calls, one at a time, with the pool left alone for TickLong  *)
(* between two of them.                                                    *)

\* The clock advances by d milliseconds while no call is pending.
Rest(d) ==
    /\ \A c \in DOMAIN calls : calls[c].pc # "await"
    /\ now + d <= StartTime + MaxDecayElapsed
    /\ now' = now + d
    /\ UNCHANGED <<tracked, calls, started, invoked, observed, selIn, selOut,
                   scoreIn, scoreOut>>

InitDecay == \E pool \in Pools(PoolTransports, MaxDecayPool) : InitPool(pool, {1})

NextDecay ==
    \/ Start(1, MaxDecayCalls, TwoMethods)
    \/ Settle(1)
    \/ Tick(TickShort)
    \/ Rest(TickLong)

SpecDecay == InitDecay /\ [][NextDecay]_vars

----------------------------------------------------------------------------
(* SpecSel: chooseBackends applied to a sequence of records and a set of   *)
(* attempted ones, as the tests apply it.                                  *)

SelScores == {ScoreOne, ScoreOne \div 2}

\* healthy() / unhealthy(score) of the tests: a record with a given score and
\* requestCount.
SelRecord(sc, count) ==
    [Backend(FakeFetch) EXCEPT !.score = sc, !.requestCount = count]

SelRecords == {SelRecord(sc, count) : sc \in SelScores, count \in 0..MaxSelCount}

InitSel ==
    /\ \E n \in 0..MaxSel :
       \E backends \in [1..n -> SelRecords], attempted \in SUBSET (1..n) :
          selIn = [backends |-> backends, attempted |-> attempted]
    /\ selOut = <<>>
    /\ tracked = <<>>
    /\ calls = <<>>
    /\ now = StartTime
    /\ started = 0
    /\ invoked = <<>>
    /\ observed = <<>>
    /\ scoreIn = NoScore
    /\ scoreOut = NoScore

Choose ==
    /\ selOut = <<>>
    /\ selOut' = chooseBackends(selIn.backends, selIn.attempted)
    /\ UNCHANGED <<tracked, calls, now, started, invoked, observed, selIn,
                   scoreIn, scoreOut>>

NextSel == Choose

SpecSel == InitSel /\ [][NextSel]_vars

----------------------------------------------------------------------------
(* SpecScore: score applied to a record and an errorBasis, as the tests    *)
(* apply it: the buffers are filled sample by sample, lastError is 0 or a  *)
(* time, and errorBasis lies at a chosen distance past lastError.          *)

ScoreStatuses == {200, 500}
ScoreLatencies == {0, 20, 90}

\* What one index of the two buffers holds: nothing, or a status and a latency.
Samples ==
    {[status |-> Hole, latency |-> Hole]}
    \cup {[status |-> st, latency |-> l] : st \in ScoreStatuses, l \in ScoreLatencies}

\* errorBasis - lastError: the ends of the five ranges of timeWeight.
Elapsed == {0, 999, 1000, 2999, 3000, 4999, 5000, 9999, 10000}

ScoreRecord(samples, lastError) ==
    [Backend(FakeFetch) EXCEPT
        !.statuses = [i \in 1..Len(samples) |-> samples[i].status],
        !.latencies = [i \in 1..Len(samples) |-> samples[i].latency],
        !.requestCount = Cardinality({i \in 1..Len(samples) : samples[i].status # Hole}),
        !.lastError = lastError]

InitScore ==
    /\ \E n \in 0..MaxSamples :
       \E samples \in [1..n -> Samples], lastError \in {0, StartTime}, e \in Elapsed :
          scoreIn = [backend |-> ScoreRecord(samples, lastError),
                     errorBasis |-> lastError + e]
    /\ scoreOut = NoScore
    /\ selIn = NoSel
    /\ selOut = <<>>
    /\ tracked = <<>>
    /\ calls = <<>>
    /\ now = StartTime
    /\ started = 0
    /\ invoked = <<>>
    /\ observed = <<>>

ScorePass ==
    /\ scoreOut = NoScore
    /\ scoreOut' = score(scoreIn.backend, scoreIn.errorBasis)
    /\ UNCHANGED <<tracked, calls, now, started, invoked, observed, selIn, selOut,
                   scoreIn>>

NextScore == ScorePass

SpecScore == InitScore /\ [][NextScore]_vars

----------------------------------------------------------------------------
(* Properties of the dispatcher.                                           *)

Retryable(method) == method \in {"GET", "HEAD"}
Is5xx(status) == status >= 500 /\ status < 600
Range(seq) == {seq[i] : i \in 1..Len(seq)}

\* A transport that always answers with a status outside [500, 600), and one
\* whose every attempt ends in a 5xx response or a failure.
Succeeding(b) == \A o \in tracked[b].proxy : o.ok /\ ~Is5xx(o.status)
Failing(b) == \A o \in tracked[b].proxy : ~o.ok \/ Is5xx(o.status)

\* C1: no dispatcher call ends in a failure passed on to its caller; a call
\* that has returned carries a response with a status code; and an attempt
\* whose transport rejected was written to the backend's status buffer as 502.
C1_NeverPropagates ==
    \A c \in DOMAIN calls :
        /\ calls[c].pc # "failed"
        /\ calls[c].pc = "done" => calls[c].resp.status \in 100..999
        /\ (calls[c].rejected /\ calls[c].got # <<>>) => calls[c].stored = 502

C1_Witness ==
    \E c \in DOMAIN calls :
        /\ calls[c].pc = "done"
        /\ calls[c].rejected
        /\ calls[c].stored = 502
        /\ calls[c].resp = proxyError
        /\ calls[c].req.method = "POST"

\* C2: a call makes a second attempt only if its method is exactly GET or
\* HEAD and every earlier attempt of it got a status in [500, 600); a call
\* with another method, or whose first status is below 500, returns the
\* response of its first attempt, and the requestCounts of the pool have
\* grown by exactly 1 since the call began.
C2_RetryGuard ==
    \A c \in DOMAIN calls :
        LET cl == calls[c]
            n == Len(cl.tries)
        IN  /\ n >= 2 => /\ Retryable(cl.req.method)
                         /\ \A i \in 1..(n - 1) : Is5xx(cl.got[i])
            /\ (cl.pc = "done" /\ cl.got # <<>>
                  /\ (~Retryable(cl.req.method) \/ cl.got[1] < 500))
               => /\ n = 1
                  /\ cl.resp = (IF cl.rejected THEN proxyError
                                ELSE Response("origin", cl.got[1], cl.tries[1]))
                  /\ SumCount(tracked, 1) - cl.base = 1

C2_Witness ==
    \E c \in DOMAIN calls :
        /\ calls[c].pc = "done"
        /\ calls[c].req.method = "get"
        /\ calls[c].got = <<599>>
        /\ calls[c].resp.status = 599
        /\ Len(tracked) >= 2
        /\ SumCount(tracked, 1) = 1

\* C3: in a pool with at least one succeeding transport, the others all
\* failing, a GET or HEAD call that has returned returned the response of a
\* succeeding backend.
C3_ReachesSucceeding ==
    \A c \in DOMAIN calls :
        (/\ calls[c].pc = "done"
         /\ Retryable(calls[c].req.method)
         /\ \E b \in DOMAIN tracked : Succeeding(b)
         /\ \A b \in DOMAIN tracked : Succeeding(b) \/ Failing(b))
        => /\ calls[c].resp.from \in DOMAIN tracked
           /\ Succeeding(calls[c].resp.from)
           /\ calls[c].resp.text = "origin"
           /\ ~Is5xx(calls[c].resp.status)

\* A GET call that went to a failing backend, ranked no lower than the
\* succeeding one, before it reached the succeeding one, in a pool whose
\* scores have come to differ.
C3_Witness ==
    \E c \in DOMAIN calls :
        /\ calls[c].pc = "done"
        /\ calls[c].req.method = "GET"
        /\ Len(calls[c].tries) = 2
        /\ Failing(calls[c].tries[1])
        /\ Succeeding(calls[c].tries[2])
        /\ calls[c].resp.from = calls[c].tries[2]
        /\ calls[c].resp.status = 200

\* C4: in a pool of failing transports a GET or HEAD call that has returned
\* returned the generic failure response, status 502, after attempting every
\* backend of the pool exactly once.
C4_ExhaustedPool ==
    \A c \in DOMAIN calls :
        (/\ calls[c].pc = "done"
         /\ Retryable(calls[c].req.method)
         /\ \A b \in DOMAIN tracked : Failing(b))
        => /\ calls[c].resp = proxyError
           /\ calls[c].resp.status = 502
           /\ Len(calls[c].tries) = Len(tracked)
           /\ Range(calls[c].tries) = DOMAIN tracked
           /\ \A b \in DOMAIN tracked :
                 Cardinality({i \in 1..Len(calls[c].tries) : calls[c].tries[i] = b}) = 1

C4_Witness ==
    \E c \in DOMAIN calls :
        /\ calls[c].pc = "done"
        /\ calls[c].req.method = "HEAD"
        /\ Len(tracked) = MaxRetryPool
        /\ \A b \in DOMAIN tracked : Failing(b)
        /\ calls[c].got[MaxRetryPool] = 599
        /\ calls[c].resp = proxyError

\* C4, its last part: a pool of one always-throwing transport yields 502.
C4_WitnessThrower ==
    \E c \in DOMAIN calls :
        /\ calls[c].pc = "done"
        /\ Len(tracked) = 1
        /\ tracked[1].proxy = Thrower
        /\ calls[c].resp.status = 502

\* C5: a call never attempts a backend twice: its attempts are distinct
\* backends, at most as many as the pool has, and while it runs they are its
\* attempted set.
C5_AtMostOnce ==
    \A c \in DOMAIN calls :
        LET cl == calls[c]
        IN  /\ \A i, j \in 1..Len(cl.tries) : i # j => cl.tries[i] # cl.tries[j]
            /\ Len(cl.tries) <= Len(tracked)
            /\ cl.pc = "await" => cl.attempted = Range(cl.tries)

\* Two calls in flight on the same pool, one of them on its second attempt,
\* both having attempted the same backend.
C5_Witness ==
    \E c, d \in DOMAIN calls :
        /\ c # d
        /\ calls[c].pc = "await"
        /\ calls[d].pc = "await"
        /\ Len(calls[c].tries) = 2
        /\ calls[d].tries[1] \in Range(calls[c].tries)

\* C9: every backend's requestCount is the number of transport invocations
\* routed to it, and no step lowers it.
C9_CountsEveryAttempt ==
    /\ [](\A b \in DOMAIN tracked : tracked[b].requestCount = invoked[b])
    /\ [][\A b \in DOMAIN tracked : tracked'[b].requestCount >= tracked[b].requestCount]_vars

\* Two calls awaiting the same backend, which has served an earlier call too.
C9_Witness ==
    \E c, d \in DOMAIN calls :
        /\ c # d
        /\ calls[c].pc = "await"
        /\ calls[d].pc = "await"
        /\ calls[c].backend = calls[d].backend
        /\ tracked[calls[c].backend].requestCount = 3
        /\ invoked[calls[c].backend] = 3

----------------------------------------------------------------------------
(* Properties of the buffers and the scores.                               *)

\* C6: once more than 10 attempts have gone to the one backend, one after
\* the other, its two buffers have length 10 and hold, from the first index
\* to the last, the 10 latest observations in the order they arrived.
C6_LastTenInOrder ==
    (tracked[1].requestCount > 10 /\ calls[1].pc = "done")
    => /\ Len(tracked[1].statuses) = 10
       /\ Len(tracked[1].latencies) = 10
       /\ tracked[1].statuses = [i \in 1..10 |-> observed[1][i].status]
       /\ tracked[1].latencies = [i \in 1..10 |-> observed[1][i].latency]

\* C10: healthScore and latencyScore of every backend lie in [0, 1].
C10_ScoresInUnitRange ==
    \A b \in DOMAIN tracked :
        /\ tracked[b].healthScore >= 0 /\ tracked[b].healthScore <= 100
        /\ tracked[b].latencyScore >= 0 /\ tracked[b].latencyScore <= 100

----------------------------------------------------------------------------
(* Properties of the selector.                                             *)

\* The ranking: higher score first, equal scores broken toward the lower
\* requestCount.
Better(x, y) ==
    \/ x.score > y.score
    \/ (x.score = y.score /\ x.requestCount < y.requestCount)

\* The pair <<r1, r2>> holds the two best of the records of bs at the
\* indices in among: both if there are two, the only one first if there is
\* one, none if there is none.
TopTwo(bs, among, r1, r2) ==
    /\ Cardinality(among) = 0 => r1 = Undefined /\ r2 = Undefined
    /\ Cardinality(among) = 1 => r1 \in among /\ r2 = Undefined
    /\ Cardinality(among) >= 2 =>
          /\ r1 \in among
          /\ r2 \in among
          /\ r1 # r2
          /\ \A k \in among \ {r1, r2} :
                ~Better(bs[k], bs[r1]) /\ ~Better(bs[k], bs[r2])

\* C7: with nothing attempted chooseBackends returns two distinct records,
\* the two best of the sequence under the ranking; the only record of a
\* sequence of one; none of an empty sequence.
C7_TwoBest ==
    (selOut # <<>> /\ selIn.attempted = {})
    => /\ Len(selOut) = 2
       /\ TopTwo(selIn.backends, DOMAIN selIn.backends, selOut[1], selOut[2])
       /\ Len(selIn.backends) = 1 => selOut = <<1, Undefined>>
       /\ Len(selIn.backends) = 0 => selOut = <<Undefined, Undefined>>

\* The last two of four records are returned: the third ties with the first
\* on score and wins on requestCount.
C7_Witness ==
    /\ selOut # <<>>
    /\ selIn.attempted = {}
    /\ Len(selIn.backends) = 4
    /\ {selOut[1], selOut[2]} = {3, 4}
    /\ selIn.backends[1].score = selIn.backends[3].score
    /\ selIn.backends[1].requestCount > selIn.backends[3].requestCount

\* C8: chooseBackends returns no record of the attempted set, and what it
\* returns are the two best of the untried records, a result being absent
\* where fewer than two are untried.
C8_SkipsAttempted ==
    selOut # <<>>
    => LET untried == DOMAIN selIn.backends \ selIn.attempted
       IN  /\ selOut[1] \notin selIn.attempted
           /\ selOut[2] \notin selIn.attempted
           /\ TopTwo(selIn.backends, untried, selOut[1], selOut[2])
           /\ Cardinality(untried) < 2 => selOut[2] = Undefined
           /\ Cardinality(untried) < 1 => selOut[1] = Undefined

\* The two attempted records outrank the two returned.
C8_Witness ==
    /\ selOut # <<>>
    /\ selIn.attempted = {1, 3}
    /\ Len(selIn.backends) = 4
    /\ {selOut[1], selOut[2]} = {2, 4}
    /\ Better(selIn.backends[1], selIn.backends[2])
    /\ Better(selIn.backends[3], selIn.backends[4])

----------------------------------------------------------------------------
(* Properties of the counters and of the buffers under concurrent calls.   *)

\* C11: in every reachable state, under every interleaving of concurrent
\* calls, each backend's requestCount is at least its scoredRequestCount.
C11_CountAtLeastScored ==
    \A b \in DOMAIN tracked :
        tracked[b].requestCount >= tracked[b].scoredRequestCount

\* A scoring pass at the third dispatch to a backend set scoredRequestCount
\* to 2 before the increment made requestCount 3.
C11_Witness ==
    \E b \in DOMAIN tracked :
        /\ tracked[b].scoredRequestCount = 2
        /\ tracked[b].requestCount = 3
        /\ \E c \in DOMAIN calls : calls[c].pc = "await" /\ calls[c].backend = b

\* The number of attempts on the one backend of SpecSeq that have written
\* their observation, and, among the last RingSize of them, the one that wrote
\* index i last (Undefined if none did): attempt k writes index (k - 1) % 10.
Written == tracked[1].requestCount - (IF calls[1].pc = "await" THEN 1 ELSE 0)
Dropped == IF Written > RingSize THEN Written - RingSize ELSE 0
WriterOf(i) ==
    LET ks == {k \in (Dropped + 1)..Written : ((k - 1) % RingSize) + 1 = i}
    IN  IF ks = {} THEN Undefined ELSE CHOOSE k \in ks : TRUE

\* C12: after any sequence of attempts and scoring passes the two buffers
\* have the same length, and at every index the status and the latency are
\* those of one attempt, the one that wrote that index last.
C12_BuffersAligned ==
    /\ Len(tracked[1].statuses) = Len(tracked[1].latencies)
    /\ \A i \in 1..Len(tracked[1].statuses) :
          IF WriterOf(i) = Undefined
          THEN tracked[1].statuses[i] = Hole /\ tracked[1].latencies[i] = Hole
          ELSE /\ tracked[1].statuses[i] = observed[1][WriterOf(i) - Dropped].status
               /\ tracked[1].latencies[i] = observed[1][WriterOf(i) - Dropped].latency

\* C15: an attempt writes its status and latency at the index derived from
\* the requestCount it incremented to itself, (ticket - 1) % 10; so the
\* attempts on one backend, up to 10 of them and however they overlap, fill
\* as many indices as there are attempts that have written, none of them
\* written over by another.
C15_OwnSlot ==
    /\ \A c \in DOMAIN calls :
          calls[c].slot # 0 => calls[c].slot = ((calls[c].ticket - 1) % RingSize) + 1
    /\ \A b \in DOMAIN tracked :
          Cardinality(Defined(tracked[b].statuses)) = Len(observed[b])

----------------------------------------------------------------------------
(* Properties of the scorer.                                               *)

\* The record given to score holds at least two non-zero latencies, every
\* non-zero latency below the expected baseline, and no status in [500, 600).
FastAndClean(backend) ==
    /\ MeasuresTaken(backend.latencies) >= 2
    /\ \A i \in Defined(backend.latencies) :
          backend.latencies[i] < AVERAGE_LATENCY_EXPECTED
    /\ Errors(backend.statuses) = 0

\* healthScore 1, latencyScore 1 and score healthWeight + latencyWeight,
\* returned and written to the record.
FullMarks(out) ==
    /\ out.ret = <<100, 100, 100 * HEALTH_SCORE_WEIGHT + 100 * LATENCY_SCORE_WEIGHT>>
    /\ out.backend.healthScore = 100
    /\ out.backend.latencyScore = 100
    /\ out.backend.score = 100 * HEALTH_SCORE_WEIGHT + 100 * LATENCY_SCORE_WEIGHT

\* C13 as stated: a scoring pass over a record with at least two non-zero
\* latencies, all below the baseline, and no 5xx status yields healthScore 1
\* and latencyScore 1 at any reference time and for any lastError.
C13_FullMarksAnyTime ==
    (scoreOut # NoScore /\ FastAndClean(scoreIn.backend)) => FullMarks(scoreOut)

\* C13, amended: it does so when the reference time lies at least 10000 ms
\* past lastError (as it does for lastError = 0 and a reference time of at
\* least 10000), where timeWeight is 0.
C13_FullMarksPastDecay ==
    (/\ scoreOut # NoScore
     /\ FastAndClean(scoreIn.backend)
     /\ scoreIn.errorBasis - scoreIn.backend.lastError >= 10000)
    => FullMarks(scoreOut)

\* Four samples of 20 and 90 ms, more than LATENCY_DEVIATION_ALLOWED apart,
\* scored exactly 10000 ms after an error.
C13_Witness ==
    /\ scoreOut # NoScore
    /\ FastAndClean(scoreIn.backend)
    /\ scoreIn.backend.lastError # 0
    /\ scoreIn.errorBasis - scoreIn.backend.lastError = 10000
    /\ MeasuresTaken(scoreIn.backend.latencies) = 4
    /\ {20, 90} \subseteq Range(scoreIn.backend.latencies)
    /\ FullMarks(scoreOut)

\* The weight of the spec's table, in tenths, for an elapsed time.
StepWeight(elapsed) ==
    IF elapsed < 1000 THEN 10
    ELSE IF elapsed < 3000 THEN 8
    ELSE IF elapsed < 5000 THEN 3
    ELSE IF elapsed < 10000 THEN 1
    ELSE 0

\* The healthScore score returns for the record of the harness when the
\* reference time lies elapsed ms past its lastError.
HealthAt(elapsed) ==
    score(scoreIn.backend, scoreIn.backend.lastError + elapsed).ret[1]

\* C14: for a record with a non-zero lastError the healthScore returned at
\* elapsed = 0 is the one returned at elapsed = 999; the healthScore returned
\* at an elapsed time is not above the one returned at any later elapsed
\* time; and a healthScore that score computes is 1 - weight * errors /
\* measured to the nearest hundredth (healthScore is kept in hundredths, as
\* toFixed(2) leaves it), the weight being 1.0, 0.8, 0.3, 0.1, 0.0 from 0,
\* 1000, 3000, 5000 and 10000 ms on.
C14_DecayMonotone ==
    (scoreOut # NoScore /\ scoreIn.backend.lastError # 0)
    => LET elapsed == scoreIn.errorBasis - scoreIn.backend.lastError
           measured == MeasuresTaken(scoreIn.backend.latencies)
           errors == Errors(scoreIn.backend.statuses)
       IN  /\ elapsed = 0 => HealthAt(999) = scoreOut.ret[1]
           /\ \A later \in Elapsed : later >= elapsed => HealthAt(later) >= scoreOut.ret[1]
           /\ measured >= 2 =>
                 2 * Abs(scoreOut.ret[1] * 10 * measured
                         - 100 * (10 * measured - StepWeight(elapsed) * errors))
                     <= 10 * measured

\* One error among two measures scored 3000 ms after the error: 0.85, above
\* the 0.5 of elapsed 0 and the 0.6 of elapsed 1000, below the 0.95 of
\* elapsed 5000 and the 1 of elapsed 10000.
C14_Witness ==
    /\ scoreOut # NoScore
    /\ scoreIn.backend.lastError # 0
    /\ scoreIn.errorBasis - scoreIn.backend.lastError = 3000
    /\ MeasuresTaken(scoreIn.backend.latencies) = 2
    /\ Errors(scoreIn.backend.statuses) = 1
    /\ scoreOut.ret[1] = 85
    /\ <<HealthAt(0), HealthAt(999), HealthAt(1000), HealthAt(2999)>> = <<50, 50, 60, 60>>
    /\ <<HealthAt(4999), HealthAt(5000), HealthAt(9999), HealthAt(10000)>> = <<85, 95, 95, 100>>

\* C17: with lastError = 0 the time-decay weight is 0 at every reference
\* time, reference times below 10000 included, and so a scoring pass that
\* computes a healthScore for a record that never saw an error yields 1.
C17_NoErrorNoDecay ==
    (scoreOut # NoScore /\ scoreIn.backend.lastError = 0)
    => /\ TimeWeight(0, scoreIn.errorBasis - 0) = 0
       /\ MeasuresTaken(scoreIn.backend.latencies) >= 2 => scoreOut.ret[1] = 100

\* The number of entries of a buffer that are neither holes nor 0.
NonZeroCount(buffer) ==
    Cardinality({i \in 1..Len(buffer) : buffer[i] # Hole /\ buffer[i] # 0})

\* C18: a scoring pass over a record with fewer than two non-zero latencies
\* returns (0, 0, 0) and leaves every field of the record as it was: the
\* scores, scoredRequestCount and the order of the buffers.
C18_EarlyReturnNoChange ==
    (scoreOut # NoScore /\ NonZeroCount(scoreIn.backend.latencies) < 2)
    => /\ scoreOut.ret = <<0, 0, 0>>
       /\ scoreOut.backend = scoreIn.backend

\* One measure of 90 ms ahead of two latencies of 0, which a sort would move
\* to the front, with a 5xx status and an error at the reference time.
C18_Witness ==
    /\ scoreOut # NoScore
    /\ scoreIn.backend.latencies = <<90, 0, 0>>
    /\ Errors(scoreIn.backend.statuses) = 1
    /\ scoreIn.backend.requestCount = 3
    /\ scoreIn.backend.lastError = scoreIn.errorBasis
    /\ scoreIn.backend.lastError # 0
    /\ scoreOut.ret = <<0, 0, 0>>
    /\ scoreOut.backend.latencies = <<90, 0, 0>>
    /\ scoreOut.backend.scoredRequestCount = 0
    /\ scoreOut.backend.score = ScoreOne

----------------------------------------------------------------------------
(* Properties of the stored scores over time.                              *)

\* C16: whenever a call begins, and so the selector ranks the pool, at
\* least 10000 ms after the lastError of a backend, the healthScore and the
\* score stored in that backend's record carry no penalty: both are 1,
\* whether or not the backend was dispatched to since the error.
C16_PenaltyTransient ==
    [][\A b \in DOMAIN tracked :
          (/\ started' = started + 1
           /\ tracked[b].lastError # 0
           /\ now - tracked[b].lastError >= 10000)
          => /\ tracked[b].healthScore = 100
             /\ tracked[b].score = ScoreOne]_vars

----------------------------------------------------------------------------
(* Termination of the dispatcher.                                          *)

\* C19: if every invoked transport settles in the end, every call that
\* awaits a transport returns in the end, on every pool and with other calls
\* running on the same pool at the same time; a call on the empty pool, and a
\* call that has run out of backends, returns without awaiting; and no call
\* ever returns the response of the branch 'No backend available'.
C19_Terminates ==
    /\ \A c \in 1..MaxInFlight : (calls[c].pc = "await") ~> (calls[c].pc = "done")
    /\ [](\A c \in DOMAIN calls :
             /\ calls[c].pc \in {"idle", "await", "done"}
             /\ calls[c].resp.text # "No backend available")

\* A call has returned after trying both backends of its pool while the
\* other call was pending on one of them.
C19_Witness ==
    \E c, d \in DOMAIN calls :
        /\ c # d
        /\ calls[c].pc = "done"
        /\ Len(calls[c].tries) = 2
        /\ calls[c].resp = proxyError
        /\ calls[d].pc = "await"
        /\ calls[d].backend \in Range(calls[c].tries)

----------------------------------------------------------------------------
(* Properties of a backend whose transport always fails.                   *)

\* The scores of backend b are the initial 1, it was never scored, and no
\* backend with a score of at most 1 has a higher score.
Unpenalised(b) ==
    /\ tracked[b].healthScore = 100
    /\ tracked[b].latencyScore = 100
    /\ tracked[b].score = ScoreOne
    /\ tracked[b].scoredRequestCount = 0
    /\ \A other \in DOMAIN tracked :
          tracked[other].score <= ScoreOne => tracked[b].score >= tracked[other].score

\* C20 as stated: a backend whose attempts all ended in a transport failure
\* keeps healthScore, latencyScore and score at 1 and scoredRequestCount at
\* 0, and of its record only requestCount, lastError and the status buffer
\* ever differ from the record balancer() made.
C20_OnlyStatusChanges ==
    \A b \in DOMAIN tracked :
        tracked[b].proxy = Thrower
        => /\ Unpenalised(b)
           /\ tracked[b] = [Backend(Thrower) EXCEPT
                               !.requestCount = tracked[b].requestCount,
                               !.lastError = tracked[b].lastError,
                               !.statuses = tracked[b].statuses]

\* C20, amended: the latency buffer differs too, a 0 standing at every index
\* a failed attempt wrote; nothing else does.
C20_FailuresNotPenalised ==
    \A b \in DOMAIN tracked :
        tracked[b].proxy = Thrower
        => /\ Unpenalised(b)
           /\ tracked[b] = [Backend(Thrower) EXCEPT
                               !.requestCount = tracked[b].requestCount,
                               !.lastError = tracked[b].lastError,
                               !.statuses = tracked[b].statuses,
                               !.latencies = tracked[b].latencies]
           /\ \A i \in 1..Len(tracked[b].statuses) :
                 /\ tracked[b].statuses[i] \in {Hole, 502}
                 /\ tracked[b].latencies[i] =
                        (IF tracked[b].statuses[i] = Hole THEN Hole ELSE 0)

\* Two failed attempts, some time apart, on one backend of a pool whose other
\* backend has been scored below 1.
C20_Witness ==
    \E b, other \in DOMAIN tracked :
        /\ tracked[b].proxy = Thrower
        /\ Len(observed[b]) >= 2
        /\ tracked[b].lastError > StartTime
        /\ Unpenalised(b)
        /\ tracked[other].scoredRequestCount > 0
        /\ tracked[other].score < ScoreOne

====
